---- MODULE Spec2Model ----
(***************************************************************************)
(* Model of server/causal_analysis_pymc_authentic.py: one invocation of    *)
(* main(), i.e. read the payload, resolve the DAG edges to table columns,  *)
(* group them by target, fit one Bayesian regression per target, turn the  *)
(* posterior coefficients into unit causal effects, derive the performance *)
(* / prediction / incrementality sections, sanitise and print the result.  *)
(*                                                                         *)
(* Strings are sequences of one-character strings, so that the string      *)
(* surgery of find_column_for_node is computed and not assumed.            *)
(* Python floats are fixed-point numbers: the integer k stands for k/Unit; *)
(* a float stored in a result is a record [k, v] whose kind k is "fin",    *)
(* "nan", "inf" or "-inf".  The table has no 'date' column and its header  *)
(* names are distinct and non-empty.                                       *)
(***************************************************************************)
EXTENDS Integers, Sequences, FiniteSets, TLC

\* ------------------------------------------------------------------ bounds
\* Longest DAG edge list of the payload.
MaxEdges == 3
\* Most numeric data rows of the payload.
MaxRows == 4
\* Fixed-point resolution: the integer k stands for the float k/Unit.
Unit == 10

\* ----------------------------------------------------------------- strings
Digits == {"0", "1", "2", "3", "4", "5", "6", "7", "8", "9"}

\* str.lower() on one character (the alphabet of the model's identifiers).
LowerChar(c) ==
  CASE c = "T" -> "t"
    [] c = "V" -> "v"
    [] c = "R" -> "r"
    [] OTHER -> c

\* str.lower()
Lower(s) == [k \in 1..Len(s) |-> LowerChar(s[k])]

\* str.replace(a, b) for one-character a and b
ReplaceChar(s, a, b) == [k \in 1..Len(s) |-> IF s[k] = a THEN b ELSE s[k]]

\* str.isdigit(): non-empty and all digits
IsDigit(s) == Len(s) > 0 /\ \A k \in 1..Len(s) : s[k] \in Digits

\* str.endswith(suf)
EndsWith(s, suf) ==
  /\ Len(s) >= Len(suf)
  /\ SubSeq(s, Len(s) - Len(suf) + 1, Len(s)) = suf

\* `a in b` for strings: a is a contiguous substring of b
Contains(b, a) ==
  \E k \in 0..(Len(b) - Len(a)) : SubSeq(b, k + 1, k + Len(a)) = a

\* Position of the last '-' of s, 0 when there is none.
LastDash(s) ==
  LET D == {k \in 1..Len(s) : s[k] = "-"}
  IN  IF D = {} THEN 0 ELSE CHOOSE k \in D : \A j \in D : j <= k

\* What find_column_for_node returns for "no match" (None); like the empty
\* string it is falsy in `if source_col and target_col`.
NoneCol == <<>>

DashTest == <<"-", "t", "e", "s", "t">>

\* Lines 43-55: the node id without timestamp suffix and '-test' suffix,
\* hyphens turned into underscores, lower-cased.
BaseNode(node_id) ==
  LET d  == LastDash(node_id)
      b1 == IF d > 0 /\ IsDigit(SubSeq(node_id, d + 1, Len(node_id)))
            THEN SubSeq(node_id, 1, d - 1)
            ELSE node_id
      b2 == IF EndsWith(b1, DashTest) THEN SubSeq(b1, 1, Len(b1) - 5) ELSE b1
  IN  Lower(ReplaceChar(b2, "-", "_"))

\* The first column of cols among the positions H, NoneCol when H is empty.
FirstCol(cols, H) ==
  IF H = {} THEN NoneCol
  ELSE cols[CHOOSE k \in H : \A j \in H : k <= j]

\* find_column_for_node: exact case-insensitive match first, then substring
\* containment in either direction, else None.
FindColumnForNode(node_id, available_columns) ==
  LET base == BaseNode(node_id)
      cols == available_columns
      Exact == {k \in 1..Len(cols) : base = Lower(cols[k])}
      Partial == {k \in 1..Len(cols) :
                    Contains(base, Lower(cols[k])) \/ Contains(Lower(cols[k]), base)}
  IN  IF Exact # {} THEN FirstCol(cols, Exact) ELSE FirstCol(cols, Partial)

\* -------------------------------------------------------------- JSON values
\* Python objects that end up in the result: dict, list, float, int, bool, str.
\* A str is a sequence of strings (the characters of an identifier, or the
\* pieces of a formatted message).
JStr(s) == [t |-> "str", v |-> s]
JInt(n) == [t |-> "int", v |-> n]
JBool(b) == [t |-> "bool", v |-> b]
JFloat(x) == [t |-> "float", v |-> x]
JList(s) == [t |-> "list", v |-> s]
JDict(f) == [t |-> "dict", v |-> f]

\* Floats: finite fixed-point values and the three non-finite ones.
Fin(n) == [k |-> "fin", v |-> n]
NaN == [k |-> "nan", v |-> 0]
PosInf == [k |-> "inf", v |-> 0]
NegInf == [k |-> "-inf", v |-> 0]

\* ------------------------------------------------------------------ inputs
c_tv == <<"t", "v">>
c_tv_2 == <<"t", "v", "_", "2">>
c_web == <<"w", "e", "b">>
c_rev == <<"r", "e", "v">>

\* Header rows of the payload.
Headers == {<<c_tv, c_web, c_rev>>, <<c_tv, c_tv_2, c_rev>>}
MainHeader == <<c_tv, c_web, c_rev>>

n_tv == <<"t", "v">>
n_TV_test == <<"T", "V", "-", "t", "e", "s", "t">>
n_web_17 == <<"w", "e", "b", "-", "1", "7">>
n_tv_2_9 == <<"t", "v", "-", "2", "-", "9">>
n_rev == <<"r", "e", "v">>
n_x == <<"x">>
n_col_1_5 == <<"c", "o", "l", "-", "1", "-", "5">>
n_col_2_5 == <<"c", "o", "l", "-", "2", "-", "5">>

Edge(s, g) == [source |-> s, target |-> g]

\* DAG edges a payload may list.
EdgePool ==
  { Edge(n_tv, n_rev), Edge(n_TV_test, n_rev), Edge(n_web_17, n_rev),
    Edge(n_tv_2_9, n_rev), Edge(n_x, n_rev), Edge(n_rev, n_tv),
    Edge(n_tv, n_web_17) }

\* All sequences over S of length at most n.
RECURSIVE SeqsUpTo(_, _)
SeqsUpTo(S, n) ==
  IF n = 0 THEN {<<>>}
  ELSE LET R == SeqsUpTo(S, n - 1)
       IN  R \cup {Append(q, x) : q \in {r \in R : Len(r) = n - 1}, x \in S}

\* Column patterns: the value of a column in data row r (whole numbers).
ColVal(pat, r) ==
  CASE pat = "ramp" -> r
    [] pat = "step" -> IF r = 1 THEN 0 ELSE 3
    [] pat = "const" -> 2
    [] pat = "neg" -> 0 - r
    [] pat = "centered" -> r - 2
    [] OTHER -> 0

Cell(n) == [ok |-> TRUE, v |-> n]
\* A cell pandas cannot read as a number (pd.to_numeric coerces it to NaN).
BadCell == [ok |-> FALSE, v |-> 0]

\* The data rows of a payload: `bad` unreadable rows, then n rows whose
\* column j follows pattern pats[j].
MakeRows(pats, n, bad) ==
  [r \in 1..(bad + n) |->
     IF r <= bad THEN [j \in 1..Len(pats) |-> BadCell]
     ELSE [j \in 1..Len(pats) |-> Cell(ColVal(pats[j], r - bad))]]

TablePatterns ==
  { <<"ramp", "step", "ramp">>, <<"const", "ramp", "ramp">>,
    <<"neg", "ramp", "ramp">>, <<"ramp", "step", "centered">>,
    <<"ramp", "step", "const">>, <<"ramp", "step", "neg">> }

\* DAGs of the payloads whose tables vary.
DagChoices ==
  { <<Edge(n_tv, n_rev)>>,
    <<Edge(n_tv, n_rev), Edge(n_web_17, n_rev)>>,
    <<Edge(n_tv, n_rev), Edge(n_tv, n_web_17)>>,
    <<Edge(n_tv, n_web_17), Edge(n_tv, n_rev), Edge(n_web_17, n_rev)>>,
    <<Edge(n_tv, n_rev), Edge(n_web_17, n_rev), Edge(n_tv, n_web_17)>>,
    <<Edge(n_x, n_rev), Edge(n_tv, n_rev)>>,
    <<Edge(n_tv, n_rev), Edge(n_TV_test, n_rev), Edge(n_web_17, n_rev)>> }

Payload(kind, header, rows, hasHeaders, edges) ==
  [kind |-> kind, header |-> header, rows |-> rows,
   hasHeaders |-> hasHeaders, edges |-> edges]

\* Payloads with every edge list over EdgePool and a fixed two-row table.
ResolvePayloads ==
  { Payload("ok", h, MakeRows(<<"ramp", "step", "ramp">>, 2, 0), TRUE, es) :
      h \in Headers, es \in SeqsUpTo(EdgePool, MaxEdges) }

\* Payloads with varying tables and a few DAGs.
NumericPayloads ==
  { Payload("ok", MainHeader, MakeRows(p, n, 0), TRUE, es) :
      p \in TablePatterns, n \in 0..MaxRows, es \in DagChoices }

\* Payloads with a row that has an unreadable cell.
BadRowPayloads ==
  { Payload("ok", MainHeader, MakeRows(<<"ramp", "step", "ramp">>, n, 1), TRUE,
            <<Edge(n_tv, n_rev)>>) : n \in {0, 3} }

\* Payloads declared headerless (config.hasHeaders = false).
HeaderlessPayloads ==
  { Payload("ok", MainHeader, MakeRows(<<"ramp", "step", "ramp">>, 3, 0), FALSE, es) :
      es \in {<<Edge(n_col_1_5, n_col_2_5)>>, <<Edge(n_tv, n_rev)>>} }

\* Standard input that is empty (or blank), and one that is no valid payload
\* (json.loads fails or a top-level key is missing).
EmptyPayload == Payload("empty", <<>>, <<>>, TRUE, <<>>)
MalformedPayload == Payload("malformed", <<>>, <<>>, TRUE, <<>>)

Payloads ==
  {EmptyPayload, MalformedPayload} \cup ResolvePayloads \cup NumericPayloads
    \cup BadRowPayloads \cup HeaderlessPayloads

\* --------------------------------------------------------------- numbers
Abs(a) == IF a < 0 THEN 0 - a ELSE a

\* Integer division rounding toward zero.
TDiv(a, b) ==
  IF (a < 0) = (b < 0) THEN Abs(a) \div Abs(b) ELSE 0 - (Abs(a) \div Abs(b))

\* Fixed-point product and quotient.
FMul(a, b) == TDiv(a * b, Unit)
FDiv(a, b) == TDiv(a * Unit, b)

\* Fixed-point square root of a >= 0: the largest r with r*r <= a*Unit.
FSqrt(a) == CHOOSE r \in 0..(a + Unit) : r * r <= a * Unit /\ (r + 1) * (r + 1) > a * Unit

RECURSIVE SumSeq(_)
SumSeq(s) == IF s = <<>> THEN 0 ELSE Head(s) + SumSeq(Tail(s))

\* numpy mean of a non-empty fixed-point vector
MeanOf(xs) == TDiv(SumSeq(xs), Len(xs))

\* ----------------------------------------------------------------- state
VARIABLES
  payload,          \* what main() reads from standard input
  pc,               \* position of the invocation
  df,               \* the DataFrame of parse_input_data
  edge_i,           \* loop index of the edge-resolution loop (1-based)
  dag_edges,        \* list of accepted (source_col, target_col) tuples
  edge_set,         \* set of the accepted tuples
  target_groups,    \* dict target -> parents, in insertion order
  node_i,           \* loop index of the per-target fitting loop
  scalers,          \* dict target -> scaler_X / scaler_y parameters
  cpds,             \* list of LinearGaussianCPD
  beta_bound,       \* whether the names β0_hat, β_hat, β_stds are bound
  beta0_hat,        \* β0_hat as left by the last fitted target
  beta_hat,         \* β_hat as left by the last fitted target
  beta_stds,        \* β_stds as left by the last fitted target
  y_clean_len,      \* len(y_clean) as left by the last loop iteration
  eff_t,            \* effect loop: index of the target
  eff_p,            \* effect loop: index of the parent
  analysis_results, \* list of the edges' data dicts
  updated_edges,    \* list of the edges' result dicts
  performance,      \* the performance dict
  predictions,      \* the predictions dict
  incrementality,   \* the incrementality dict
  result,           \* what perform_authentic_pymc_analysis returns
  stdout,           \* the JSON payloads printed on standard output
  exit_code,        \* the process exit status
  sampled,          \* targets pm.sample was called for, in call order
  posterior,        \* target -> the posterior pm.sample returned for it
  handled           \* the except handlers that ran, in order

vars ==
  <<payload, pc, df, edge_i, dag_edges, edge_set, target_groups, node_i,
    scalers, cpds, beta_bound, beta0_hat, beta_hat, beta_stds, y_clean_len,
    eff_t, eff_p, analysis_results, updated_edges, performance, predictions,
    incrementality, result, stdout, exit_code, sampled, posterior, handled>>

\* The values of a local name that is not bound yet.
Unbound == <<>>
EmptyDict == JDict(<<>>)

Init ==
  /\ payload \in Payloads
  /\ pc = "start"
  /\ df = [columns |-> <<>>, rows |-> <<>>]
  /\ edge_i = 0
  /\ dag_edges = <<>>
  /\ edge_set = {}
  /\ target_groups = <<>>
  /\ node_i = 0
  /\ scalers = <<>>
  /\ cpds = <<>>
  /\ beta_bound = FALSE
  /\ beta0_hat = 0
  /\ beta_hat = Unbound
  /\ beta_stds = Unbound
  /\ y_clean_len = 0
  /\ eff_t = 0
  /\ eff_p = 0
  /\ analysis_results = <<>>
  /\ updated_edges = <<>>
  /\ performance = EmptyDict
  /\ predictions = EmptyDict
  /\ incrementality = EmptyDict
  /\ result = EmptyDict
  /\ stdout = <<>>
  /\ exit_code = 0
  /\ sampled = <<>>
  /\ posterior = <<>>
  /\ handled = <<>>

\* ------------------------------------------------------------------ main()
MethodId == <<"pymc_lineargaussian_cpd">>

\* The failure dict of lines 137-146, 620-629 and 681-690.
FailureResult(msg) ==
  JDict([success |-> JBool(FALSE),
         error |-> JStr(msg),
         method |-> JStr(MethodId),
         parameters |-> JDict([edges |-> JList(<<>>)]),
         updatedDAG |-> JDict([nodes |-> JList(<<>>), edges |-> JList(<<>>)]),
         performance |-> EmptyDict,
         predictions |-> JDict([actualVsPredicted |-> JList(<<>>)]),
         incrementalityAnalysis |-> EmptyDict])

\* main with a bare except: the SystemExit of the empty-input branch is caught
\* by the handler, which prints a second payload.
MainNoInputCaught ==
  /\ pc = "start"
  /\ payload.kind = "empty"
  /\ stdout' = stdout \o <<JDict([error |-> JStr(<<"No input provided">>)]),
                            FailureResult(<<"Script execution failed: ", "1">>)>>
  /\ exit_code' = 1
  /\ pc' = "exit"
  /\ UNCHANGED <<payload, df, edge_i, dag_edges, edge_set, target_groups,
                 node_i, scalers, cpds, beta_bound, beta0_hat, beta_hat,
                 beta_stds, y_clean_len, eff_t, eff_p, analysis_results,
                 updated_edges, performance, predictions, incrementality,
                 result, sampled, posterior, handled>>

\* Lines 636-640: nothing on standard input.
MainNoInput ==
  /\ pc = "start"
  /\ payload.kind = "empty"
  /\ stdout' = Append(stdout, JDict([error |-> JStr(<<"No input provided">>)]))
  /\ exit_code' = 1
  /\ pc' = "exit"
  /\ UNCHANGED <<payload, df, edge_i, dag_edges, edge_set, target_groups,
                 node_i, scalers, cpds, beta_bound, beta0_hat, beta_hat,
                 beta_stds, y_clean_len, eff_t, eff_p, analysis_results,
                 updated_edges, performance, predictions, incrementality,
                 result, sampled, posterior, handled>>

\* Lines 645-648 raising, handled at 676-692: the input is no payload.
MainScriptError ==
  /\ pc = "start"
  /\ payload.kind = "malformed"
  /\ stdout' = Append(stdout,
                 FailureResult(<<"Script execution failed: ", "invalid payload">>))
  /\ exit_code' = 1
  /\ handled' = Append(handled, "main")
  /\ pc' = "exit"
  /\ UNCHANGED <<payload, df, edge_i, dag_edges, edge_set, target_groups,
                 node_i, scalers, cpds, beta_bound, beta0_hat, beta_hat,
                 beta_stds, y_clean_len, eff_t, eff_p, analysis_results,
                 updated_edges, performance, predictions, incrementality,
                 result, sampled, posterior>>

\* Lines 645-653: the payload parses and the analysis is called.
MainCallAnalysis ==
  /\ pc = "start"
  /\ payload.kind = "ok"
  /\ pc' = "parse"
  /\ UNCHANGED <<payload, df, edge_i, dag_edges, edge_set, target_groups,
                 node_i, scalers, cpds, beta_bound, beta0_hat, beta_hat,
                 beta_stds, y_clean_len, eff_t, eff_p, analysis_results,
                 updated_edges, performance, predictions, incrementality,
                 result, stdout, exit_code, sampled, posterior, handled>>

\* ------------------------------------------------------- parse_input_data
DigitStr(n) ==
  CASE n = 0 -> "0" [] n = 1 -> "1" [] n = 2 -> "2" [] n = 3 -> "3"
    [] n = 4 -> "4" [] n = 5 -> "5" [] n = 6 -> "6" [] n = 7 -> "7"
    [] n = 8 -> "8" [] OTHER -> "9"

\* f"col_{i}" for a one-digit i
ColName(i) == <<"c", "o", "l", "_", DigitStr(i)>>

RowOk(row) == \A j \in 1..Len(row) : row[j].ok

\* parse_input_data: the columns come from the header row or are synthesised
\* (then the first row, the header's strings, is data that coerces to NaN);
\* every cell is made numeric and rows with a missing value are dropped.
\* The values are stored in fixed point.
ParseInput(p) ==
  LET columns == IF p.hasHeaders THEN p.header
                 ELSE [j \in 1..Len(p.header) |-> ColName(j - 1)]
      df_data == IF p.hasHeaders THEN p.rows
                 ELSE <<[j \in 1..Len(p.header) |-> BadCell]>> \o p.rows
      kept == SelectSeq(df_data, RowOk)
  IN  [columns |-> columns,
       rows |-> [r \in 1..Len(kept) |->
                   [j \in 1..Len(kept[r]) |-> kept[r][j].v * Unit]]]

\* Lines 107-116.
ParseInputData ==
  /\ pc = "parse"
  /\ df' = ParseInput(payload)
  /\ dag_edges' = <<>>
  /\ edge_set' = {}
  /\ edge_i' = 1
  /\ pc' = "resolve"
  /\ UNCHANGED <<payload, target_groups, node_i, scalers, cpds, beta_bound,
                 beta0_hat, beta_hat, beta_stds, y_clean_len, eff_t, eff_p,
                 analysis_results, updated_edges, performance, predictions,
                 incrementality, result, stdout, exit_code, sampled,
                 posterior, handled>>

\* ---------------------------------------------------------- edge resolution
\* Lines 123-132 with the duplicate test dropped (a resolver that appends
\* every resolvable edge).
AcceptEdgeNoDedup(edges, seen, source_col, target_col) ==
  IF source_col # NoneCol /\ target_col # NoneCol
  THEN [edges |-> Append(edges, <<source_col, target_col>>),
        seen |-> seen \cup {<<source_col, target_col>>}]
  ELSE [edges |-> edges, seen |-> seen]

\* Lines 123-132 with a failed mapping ending the loop's work (a resolver
\* that forgets everything accepted so far when one edge does not resolve).
AcceptEdgeStrict(edges, seen, source_col, target_col) ==
  IF source_col # NoneCol /\ target_col # NoneCol
  THEN IF <<source_col, target_col>> \notin seen
       THEN [edges |-> Append(edges, <<source_col, target_col>>),
             seen |-> seen \cup {<<source_col, target_col>>}]
       ELSE [edges |-> edges, seen |-> seen]
  ELSE [edges |-> <<>>, seen |-> {}]

\* Lines 123-132: an edge with both endpoints resolved is appended unless its
\* tuple was accepted before; anything else is skipped.
AcceptEdge(edges, seen, source_col, target_col) ==
  IF source_col # NoneCol /\ target_col # NoneCol
  THEN IF <<source_col, target_col>> \notin seen
       THEN [edges |-> Append(edges, <<source_col, target_col>>),
             seen |-> seen \cup {<<source_col, target_col>>}]
       ELSE [edges |-> edges, seen |-> seen]
  ELSE [edges |-> edges, seen |-> seen]

\* Lines 118-132: one iteration of the loop over dag_structure['edges'].
ResolveEdge ==
  /\ pc = "resolve"
  /\ edge_i <= Len(payload.edges)
  /\ LET edge == payload.edges[edge_i]
         source_col == FindColumnForNode(edge.source, df.columns)
         target_col == FindColumnForNode(edge.target, df.columns)
         acc == AcceptEdge(dag_edges, edge_set, source_col, target_col)
     IN  /\ dag_edges' = acc.edges
         /\ edge_set' = acc.seen
  /\ edge_i' = edge_i + 1
  /\ UNCHANGED <<payload, pc, df, target_groups, node_i, scalers, cpds,
                 beta_bound, beta0_hat, beta_hat, beta_stds, y_clean_len,
                 eff_t, eff_p, analysis_results, updated_edges, performance,
                 predictions, incrementality, result, stdout, exit_code,
                 sampled, posterior, handled>>

\* Lines 136-146: no edge was accepted.
NoValidEdges ==
  /\ pc = "resolve"
  /\ edge_i > Len(payload.edges)
  /\ dag_edges = <<>>
  /\ result' = FailureResult(<<"No valid DAG edges found after column mapping">>)
  /\ pc' = "clean"
  /\ UNCHANGED <<payload, df, edge_i, dag_edges, edge_set, target_groups,
                 node_i, scalers, cpds, beta_bound, beta0_hat, beta_hat,
                 beta_stds, y_clean_len, eff_t, eff_p, analysis_results,
                 updated_edges, performance, predictions, incrementality,
                 stdout, exit_code, sampled, posterior, handled>>

\* The outer handler of perform_authentic_pymc_analysis, lines 615-629.
AnalysisFailure(exc) == FailureResult(<<"PyMC analysis failed: ", exc>>)

\* --------------------------------------------------- network and grouping
EdgeNodes(edges) ==
  {edges[k][1] : k \in 1..Len(edges)} \cup {edges[k][2] : k \in 1..Len(edges)}

\* The nodes reachable from node a along at least one edge, by paths of at
\* most n edges.
RECURSIVE ReachFrom(_, _, _)
ReachFrom(edges, a, n) ==
  LET Succ(S) == {edges[k][2] : k \in {j \in 1..Len(edges) : edges[j][1] \in S}}
  IN  IF n <= 1 THEN Succ({a})
      ELSE LET R == ReachFrom(edges, a, n - 1) IN R \cup Succ(R)

\* pgmpy's DAG constructor refuses an edge list with a directed cycle (a
\* self-loop included) with a ValueError.
HasCycle(edges) ==
  \E a \in EdgeNodes(edges) : a \in ReachFrom(edges, a, Len(edges))

\* Index of the group of target in groups, 0 when it has none.
GroupIndex(groups, target) ==
  LET H == {k \in 1..Len(groups) : groups[k].target = target}
  IN  IF H = {} THEN 0 ELSE CHOOSE k \in H : TRUE

\* Lines 153-157: group the parents by target, keys in insertion order.
RECURSIVE GroupEdges(_, _)
GroupEdges(edges, groups) ==
  IF edges = <<>> THEN groups
  ELSE LET source_col == Head(edges)[1]
           target_col == Head(edges)[2]
           g == GroupIndex(groups, target_col)
       IN  IF g = 0
           THEN GroupEdges(Tail(edges),
                  Append(groups, [target |-> target_col, parents |-> <<source_col>>]))
           ELSE GroupEdges(Tail(edges),
                  [groups EXCEPT ![g].parents = Append(@, source_col)])

\* Line 149 raising: the accepted edges have a cycle.
BuildNetworkCycle ==
  /\ pc = "resolve"
  /\ edge_i > Len(payload.edges)
  /\ dag_edges # <<>>
  /\ HasCycle(dag_edges)
  /\ result' = AnalysisFailure("Cycles are not allowed in a DAG")
  /\ handled' = Append(handled, "analysis")
  /\ pc' = "clean"
  /\ UNCHANGED <<payload, df, edge_i, dag_edges, edge_set, target_groups,
                 node_i, scalers, cpds, beta_bound, beta0_hat, beta_hat,
                 beta_stds, y_clean_len, eff_t, eff_p, analysis_results,
                 updated_edges, performance, predictions, incrementality,
                 stdout, exit_code, sampled, posterior>>

\* Lines 149-163: the network is built, the edges are grouped by target and
\* the fitting loop starts.
BuildNetworkAndGroup ==
  /\ pc = "resolve"
  /\ edge_i > Len(payload.edges)
  /\ dag_edges # <<>>
  /\ ~HasCycle(dag_edges)
  /\ target_groups' = GroupEdges(dag_edges, <<>>)
  /\ node_i' = 1
  /\ pc' = "fit"
  /\ UNCHANGED <<payload, df, edge_i, dag_edges, edge_set, scalers, cpds,
                 beta_bound, beta0_hat, beta_hat, beta_stds, y_clean_len,
                 eff_t, eff_p, analysis_results, updated_edges, performance,
                 predictions, incrementality, result, stdout, exit_code,
                 sampled, posterior, handled>>

\* ------------------------------------------------------------ fitting loop
ColIndex(columns, name) ==
  LET H == {k \in 1..Len(columns) : columns[k] = name}
  IN  IF H = {} THEN 0 ELSE CHOOSE k \in H : \A j \in H : k <= j

\* df[name].values
Column(d, name) ==
  [r \in 1..Len(d.rows) |-> d.rows[r][ColIndex(d.columns, name)]]

\* A scaler that replaces a zero standard deviation by the smallest positive
\* number instead of 1.0.
ScalerFitEpsilon(xs) ==
  LET m == MeanOf(xs)
      v == MeanOf([r \in 1..Len(xs) |-> FMul(xs[r] - m, xs[r] - m)])
      sd == FSqrt(v)
  IN  [mean |-> m, scale |-> IF sd = 0 THEN 1 ELSE sd]

\* StandardScaler.fit on one column: mean_ and scale_, where scale_ is the
\* population standard deviation, and 1.0 when that is zero.
ScalerFit(xs) ==
  LET m == MeanOf(xs)
      v == MeanOf([r \in 1..Len(xs) |-> FMul(xs[r] - m, xs[r] - m)])
      sd == FSqrt(v)
  IN  [mean |-> m, scale |-> IF sd = 0 THEN Unit ELSE sd]

\* StandardScaler.transform of one value
ScalerTransform(x, sc) == FDiv(x - sc.mean, sc.scale)

\* StandardScaler.inverse_transform of one value
ScalerInverse(z, sc) == FMul(z, sc.scale) + sc.mean

\* Lines 168-205: the entry of scalers for one target.  Every row of df is
\* valid (dropna left no missing value), so X_raw and y_raw are df's columns.
\* X_raw is kept column by column.
ScalerInfo(d, target_col, parent_cols) ==
  LET present == SelectSeq(parent_cols, LAMBDA q : ColIndex(d.columns, q) > 0)
  IN  [scaler_X |-> [j \in 1..Len(present) |-> ScalerFit(Column(d, present[j]))],
       scaler_y |-> ScalerFit(Column(d, target_col)),
       parent_cols |-> parent_cols,
       X_raw |-> [j \in 1..Len(present) |-> Column(d, present[j])],
       y_raw |-> Column(d, target_col)]

\* dict[key] = value on a dict kept as a function
DictSet(d, key, value) ==
  [x \in DOMAIN d \cup {key} |-> IF x = key THEN value ELSE d[x]]

\* Posterior means of the intercept, and of the first coefficient and first
\* coefficient std (HalfNormal priors: positive), that sampling may return.
B0Vals == {0 - 5, 5}
BetaVals == {3, 12}
StdVals == {1, 8}

\* The posteriors pm.sample may return for a target with k parents: the
\* intercept mean, the k coefficient means, their k stds and the noise scale.
PosteriorDraws(k) ==
  { [b0 |-> b0,
     b |-> [j \in 1..k |-> bv + 2 * (j - 1)],
     bs |-> [j \in 1..k |-> sv + (j - 1)],
     sigma |-> 5] : b0 \in B0Vals, bv \in BetaVals, sv \in StdVals }

\* A fitting loop whose sample-count guard comes before the scalers: a
\* target of an empty table is skipped instead of raising.
FitNodeEmptySkipped ==
  /\ pc = "fit"
  /\ node_i <= Len(target_groups)
  /\ Len(df.rows) = 0
  /\ node_i' = node_i + 1
  /\ UNCHANGED <<payload, pc, df, edge_i, dag_edges, edge_set, target_groups,
                 scalers, cpds, beta_bound, beta0_hat, beta_hat, beta_stds,
                 y_clean_len, eff_t, eff_p, analysis_results, updated_edges,
                 performance, predictions, incrementality, result, stdout,
                 exit_code, sampled, posterior, handled>>

\* Lines 165-196 raising: StandardScaler refuses an array with no sample.
FitNodeScalerError ==
  /\ pc = "fit"
  /\ node_i <= Len(target_groups)
  /\ Len(df.rows) = 0
  /\ result' = AnalysisFailure("Found array with 0 sample(s)")
  /\ handled' = Append(handled, "analysis")
  /\ pc' = "clean"
  /\ UNCHANGED <<payload, df, edge_i, dag_edges, edge_set, target_groups,
                 node_i, scalers, cpds, beta_bound, beta0_hat, beta_hat,
                 beta_stds, y_clean_len, eff_t, eff_p, analysis_results,
                 updated_edges, performance, predictions, incrementality,
                 stdout, exit_code, sampled, posterior>>

\* The sample-count guard of line 207 weakened to `< 2`.
InsufficientLt2(n) == n < 2

\* Line 207: len(X_clean) < 3.
Insufficient(n) == n < 3

\* Lines 165-209: a target with too few samples gets its scalers and is
\* skipped.
FitNodeSkip ==
  /\ pc = "fit"
  /\ node_i <= Len(target_groups)
  /\ Len(df.rows) > 0
  /\ Insufficient(Len(df.rows))
  /\ LET g == target_groups[node_i]
     IN  scalers' = DictSet(scalers, g.target, ScalerInfo(df, g.target, g.parents))
  /\ y_clean_len' = Len(df.rows)
  /\ node_i' = node_i + 1
  /\ UNCHANGED <<payload, pc, df, edge_i, dag_edges, edge_set, target_groups,
                 cpds, beta_bound, beta0_hat, beta_hat, beta_stds, eff_t,
                 eff_p, analysis_results, updated_edges, performance,
                 predictions, incrementality, result, stdout, exit_code,
                 sampled, posterior, handled>>

\* A fitting loop that catches the failure of pm.sample per target: the
\* target is skipped and the loop goes on.
FitNodeSampleRaiseIsolated ==
  /\ pc = "fit"
  /\ node_i <= Len(target_groups)
  /\ Len(df.rows) > 0
  /\ ~Insufficient(Len(df.rows))
  /\ LET g == target_groups[node_i]
     IN  /\ scalers' = DictSet(scalers, g.target, ScalerInfo(df, g.target, g.parents))
         /\ sampled' = Append(sampled, g.target)
  /\ y_clean_len' = Len(df.rows)
  /\ node_i' = node_i + 1
  /\ UNCHANGED <<payload, pc, df, edge_i, dag_edges, edge_set, target_groups,
                 cpds, beta_bound, beta0_hat, beta_hat, beta_stds, eff_t,
                 eff_p, analysis_results, updated_edges, performance,
                 predictions, incrementality, result, stdout, exit_code,
                 posterior, handled>>

\* Lines 165-246 raising: pm.sample fails for this target; nothing catches
\* the exception before the outer handler.
FitNodeSampleRaise ==
  /\ pc = "fit"
  /\ node_i <= Len(target_groups)
  /\ Len(df.rows) > 0
  /\ ~Insufficient(Len(df.rows))
  /\ LET g == target_groups[node_i]
     IN  /\ scalers' = DictSet(scalers, g.target, ScalerInfo(df, g.target, g.parents))
         /\ sampled' = Append(sampled, g.target)
  /\ y_clean_len' = Len(df.rows)
  /\ result' = AnalysisFailure("SamplingError")
  /\ handled' = Append(handled, "analysis")
  /\ pc' = "clean"
  /\ UNCHANGED <<payload, df, edge_i, dag_edges, edge_set, target_groups,
                 node_i, cpds, beta_bound, beta0_hat, beta_hat, beta_stds,
                 eff_t, eff_p, analysis_results, updated_edges, performance,
                 predictions, incrementality, stdout, exit_code, posterior>>

\* Lines 165-276: the target is fitted; the posterior means and stds are
\* bound to β0_hat, β_hat, β_stds and a LinearGaussianCPD is appended.
FitNodeSampled ==
  /\ pc = "fit"
  /\ node_i <= Len(target_groups)
  /\ Len(df.rows) > 0
  /\ ~Insufficient(Len(df.rows))
  /\ LET g == target_groups[node_i]
     IN  /\ scalers' = DictSet(scalers, g.target, ScalerInfo(df, g.target, g.parents))
         /\ sampled' = Append(sampled, g.target)
         /\ \E draw \in PosteriorDraws(Len(g.parents)) :
              /\ posterior' = DictSet(posterior, g.target, draw)
              /\ beta0_hat' = draw.b0
              /\ beta_hat' = draw.b
              /\ beta_stds' = draw.bs
              /\ cpds' = Append(cpds, [variable |-> g.target,
                                       beta |-> <<draw.b0>> \o draw.b,
                                       std |-> draw.sigma,
                                       evidence |-> g.parents])
  /\ beta_bound' = TRUE
  /\ y_clean_len' = Len(df.rows)
  /\ node_i' = node_i + 1
  /\ UNCHANGED <<payload, pc, df, edge_i, dag_edges, edge_set, target_groups,
                 eff_t, eff_p, analysis_results, updated_edges, performance,
                 predictions, incrementality, result, stdout, exit_code,
                 handled>>

\* Lines 278-285: the fitting loop is over; the effect loop starts.
FitLoopDone ==
  /\ pc = "fit"
  /\ node_i > Len(target_groups)
  /\ eff_t' = 1
  /\ eff_p' = 1
  /\ pc' = "effects"
  /\ UNCHANGED <<payload, df, edge_i, dag_edges, edge_set, target_groups,
                 node_i, scalers, cpds, beta_bound, beta0_hat, beta_hat,
                 beta_stds, y_clean_len, analysis_results, updated_edges,
                 performance, predictions, incrementality, result, stdout,
                 exit_code, sampled, posterior, handled>>

\* ------------------------------------------------------------- effect loop
\* Most exceptions raised inside the try block of lines 289-378 in one
\* invocation.
MaxFaults == 1

\* x < y on floats: false when either is NaN.
FLess(x, y) ==
  CASE x.k = "nan" \/ y.k = "nan" -> FALSE
    [] x.k = "-inf" -> y.k # "-inf"
    [] x.k = "inf" -> FALSE
    [] y.k = "-inf" -> FALSE
    [] y.k = "inf" -> TRUE
    [] OTHER -> x.v < y.v

\* Python's min(a, b) and max(a, b): the second argument wins only when it
\* compares strictly smaller (larger), so a NaN second argument never wins.
PyMin(a, b) == IF FLess(b, a) THEN b ELSE a
PyMax(a, b) == IF FLess(a, b) THEN b ELSE a

\* 1 - x on floats
OneMinus(x) ==
  CASE x.k = "nan" -> NaN
    [] x.k = "inf" -> NegInf
    [] x.k = "-inf" -> PosInf
    [] OTHER -> Fin(Unit - x.v)

\* Line 348: 2 * (1 - stats.t.cdf(|t|, dof)).  scipy returns NaN for a
\* non-positive dof; otherwise the value lies in [0, 1], is 1 at t = 0 and
\* decreases with |t| (here 1 / (1 + t*t)).
PValue(t_stat, dof) ==
  IF dof <= 0 THEN NaN ELSE Fin(TDiv(Unit * Unit, Unit + FMul(t_stat, t_stat)))

\* Line 349: max(0, min(1, 1 - p_value)).
Confidence(p_value) == PyMax(Fin(0), PyMin(Fin(Unit), OneMinus(p_value)))

\* A strength label that looks at the effect size only and forgets the
\* standard error.
StrengthEffectOnly(unit_effect, std_error) ==
  LET abs_effect == Abs(unit_effect)
  IN  IF 2 * abs_effect > Unit THEN "strong"
      ELSE IF 5 * abs_effect > Unit THEN "moderate"
      ELSE "weak"

\* Lines 352-358: abs_effect > 0.5 and std_error < abs_effect / 2 is strong,
\* abs_effect > 0.2 and std_error < abs_effect is moderate, else weak.
Strength(unit_effect, std_error) ==
  LET abs_effect == Abs(unit_effect)
  IN  IF 2 * abs_effect > Unit /\ 2 * std_error < abs_effect THEN "strong"
      ELSE IF 5 * abs_effect > Unit /\ std_error < abs_effect THEN "moderate"
      ELSE "weak"

\* Lines 360-372 and 385-397: the result dict of one edge.
EdgeResult(parent, target_col, coefficient, std_error, p_value, confidence, strength) ==
  LET data == JDict([source |-> JStr(ReplaceChar(parent, "_", "-")),
                     target |-> JStr(ReplaceChar(target_col, "_", "-")),
                     coefficient |-> JFloat(coefficient),
                     standardError |-> JFloat(std_error),
                     pValue |-> JFloat(p_value),
                     confidence |-> JFloat(confidence),
                     strength |-> JStr(<<strength>>)])
  IN  JDict([source |-> JStr(ReplaceChar(parent, "_", "-")),
             target |-> JStr(ReplaceChar(target_col, "_", "-")),
             data |-> data])

\* Lines 296-300: the first CPD of the target, 0 when it has none.
CpdIndex(cs, target_col) ==
  LET H == {k \in 1..Len(cs) : cs[k].variable = target_col}
  IN  IF H = {} THEN 0 ELSE CHOOSE k \in H : \A j \in H : k <= j

\* x[i] if i < len(x) else 0, for a 0-based i
AtOrZero(x, i) == IF i < Len(x) THEN x[i + 1] ELSE 0

\* Line 315: scaler_X.scale_[parent_index]
XStd(info, parent_index) == info.scaler_X[parent_index + 1].scale

\* The transform reading cpd.beta[parent_index], the intercept not skipped.
TransformedEdgeInterceptNotSkipped(cpd, info, parent_cols, target_col, i, stds, n_clean) ==
  LET parent == parent_cols[i + 1]
      parent_index == ColIndex(parent_cols, parent) - 1
      standardized_coeff == cpd.beta[parent_index + 1]
      y_std == info.scaler_y.scale
      x_std == XStd(info, parent_index)
      unit_effect == FMul(standardized_coeff, FDiv(y_std, x_std))
      std_error == FMul(AtOrZero(stds, i), FDiv(y_std, x_std))
      t_stat == IF std_error > 0 THEN FDiv(unit_effect, std_error) ELSE 0
      p_value == PValue(Abs(t_stat), n_clean - Len(parent_cols) - 1)
  IN  EdgeResult(parent, target_col, Fin(unit_effect), Fin(std_error), p_value,
                 Confidence(p_value), Strength(unit_effect, std_error))

\* Lines 302-372: the transformed result of parent number i (0-based) of a
\* target that has a CPD.
TransformedEdge(cpd, info, parent_cols, target_col, i, stds, n_clean) ==
  LET parent == parent_cols[i + 1]
      parent_index == ColIndex(parent_cols, parent) - 1
      standardized_coeff == cpd.beta[parent_index + 2]
      y_std == info.scaler_y.scale
      x_std == XStd(info, parent_index)
      unit_effect == FMul(standardized_coeff, FDiv(y_std, x_std))
      std_error == FMul(AtOrZero(stds, i), FDiv(y_std, x_std))
      t_stat == IF std_error > 0 THEN FDiv(unit_effect, std_error) ELSE 0
      p_value == PValue(Abs(t_stat), n_clean - Len(parent_cols) - 1)
  IN  EdgeResult(parent, target_col, Fin(unit_effect), Fin(std_error), p_value,
                 Confidence(p_value), Strength(unit_effect, std_error))

\* Lines 379-397: the fallback result of parent number i (0-based).
FallbackEdge(parent_cols, target_col, i, means, stds) ==
  EdgeResult(parent_cols[i + 1], target_col, Fin(AtOrZero(means, i)),
             Fin(AtOrZero(stds, i)), Fin(Unit \div 2), Fin(Unit \div 2), "moderate")

Count(seq, x) == Cardinality({k \in 1..Len(seq) : seq[k] = x})

InEffectLoop == pc = "effects" /\ eff_t <= Len(target_groups)

\* The loop variables after the current (target, parent) pair.
EffectAdvance ==
  IF eff_p < Len(target_groups[eff_t].parents)
  THEN /\ eff_t' = eff_t
       /\ eff_p' = eff_p + 1
  ELSE /\ eff_t' = eff_t + 1
       /\ eff_p' = 1

\* Lines 288-302: the target has no CPD (it was not fitted); nothing is
\* appended for this edge.
EffectNoCpd ==
  /\ InEffectLoop
  /\ CpdIndex(cpds, target_groups[eff_t].target) = 0
  /\ EffectAdvance
  /\ UNCHANGED <<payload, pc, df, edge_i, dag_edges, edge_set, target_groups,
                 node_i, scalers, cpds, beta_bound, beta0_hat, beta_hat,
                 beta_stds, y_clean_len, analysis_results, updated_edges,
                 performance, predictions, incrementality, result, stdout,
                 exit_code, sampled, posterior, handled>>

\* Lines 288-377: the coefficient of the edge is transformed to original
\* units and its result appended.
EffectTransform ==
  /\ InEffectLoop
  /\ CpdIndex(cpds, target_groups[eff_t].target) > 0
  /\ LET g == target_groups[eff_t]
         r == TransformedEdge(cpds[CpdIndex(cpds, g.target)], scalers[g.target],
                              g.parents, g.target, eff_p - 1, beta_stds, y_clean_len)
     IN  /\ analysis_results' = Append(analysis_results, r.v.data)
         /\ updated_edges' = Append(updated_edges, r)
  /\ EffectAdvance
  /\ UNCHANGED <<payload, pc, df, edge_i, dag_edges, edge_set, target_groups,
                 node_i, scalers, cpds, beta_bound, beta0_hat, beta_hat,
                 beta_stds, y_clean_len, performance, predictions,
                 incrementality, result, stdout, exit_code, sampled,
                 posterior, handled>>

\* Lines 379-400: something raised inside the try block; the handler appends
\* the raw coefficient of position i of β_hat and β_stds.
EffectFallback ==
  /\ InEffectLoop
  /\ Count(handled, "transform") < MaxFaults
  /\ beta_bound
  /\ LET g == target_groups[eff_t]
         r == FallbackEdge(g.parents, g.target, eff_p - 1, beta_hat, beta_stds)
     IN  /\ analysis_results' = Append(analysis_results, r.v.data)
         /\ updated_edges' = Append(updated_edges, r)
  /\ handled' = Append(handled, "transform")
  /\ EffectAdvance
  /\ UNCHANGED <<payload, pc, df, edge_i, dag_edges, edge_set, target_groups,
                 node_i, scalers, cpds, beta_bound, beta0_hat, beta_hat,
                 beta_stds, y_clean_len, performance, predictions,
                 incrementality, result, stdout, exit_code, sampled,
                 posterior>>

\* Lines 379-383 raising: the handler reads β_hat while no target was fitted
\* (NameError), which only the outer handler catches.
EffectFallbackNameError ==
  /\ InEffectLoop
  /\ Count(handled, "transform") < MaxFaults
  /\ ~beta_bound
  /\ handled' = handled \o <<"transform", "analysis">>
  /\ result' = AnalysisFailure("name is not defined")
  /\ pc' = "clean"
  /\ UNCHANGED <<payload, df, edge_i, dag_edges, edge_set, target_groups,
                 node_i, scalers, cpds, beta_bound, beta0_hat, beta_hat,
                 beta_stds, y_clean_len, eff_t, eff_p, analysis_results,
                 updated_edges, performance, predictions, incrementality,
                 stdout, exit_code, sampled, posterior>>

\* Line 402: the effect loop is over.
EffectLoopDone ==
  /\ pc = "effects"
  /\ eff_t > Len(target_groups)
  /\ pc' = "performance"
  /\ UNCHANGED <<payload, df, edge_i, dag_edges, edge_set, target_groups,
                 node_i, scalers, cpds, beta_bound, beta0_hat, beta_hat,
                 beta_stds, y_clean_len, eff_t, eff_p, analysis_results,
                 updated_edges, performance, predictions, incrementality,
                 result, stdout, exit_code, sampled, posterior, handled>>

\* ------------------------------------------------------ derived sections
\* floor(log2(x)) for x >= 1
RECURSIVE Log2(_)
Log2(x) == IF x <= 1 THEN 0 ELSE 1 + Log2(x \div 2)

\* Natural logarithm of the fixed-point x > 0, to the precision of
\* ln(2) * floor(log2).
FLn(x) == TDiv((Log2(x) - Log2(Unit)) * 693 * Unit, 1000)

\* np.log(max(1e-10, 1 / (rmse + 1e-10))): ln(1e10) at rmse = 0, else -ln(rmse)
LogInvRmse(rmse) == IF rmse = 0 THEN TDiv(23026 * Unit, 1000) ELSE 0 - FLn(rmse)

\* β0 + np.dot(X_scaled, β) inverse-transformed, for row r; X is kept column
\* by column.
PredictRow(X, r, info, b0, b) ==
  LET z == b0 + SumSeq([j \in 1..Len(X) |->
                          FMul(ScalerTransform(X[j][r], info.scaler_X[j]), b[j])])
  IN  ScalerInverse(z, info.scaler_y)

\* np.dot(X_scaled, β) raises unless β has one entry per column of X, and
\* β0_hat / β_hat raise a NameError while unbound.
DotFails(k, bound, b) == ~bound \/ Len(b) # k

ZeroPerformance ==
  JDict([rSquared |-> JFloat(Fin(0)), rmse |-> JFloat(Fin(0)),
         aic |-> JFloat(Fin(0)), bic |-> JFloat(Fin(0))])

\* The metrics taken for the first target of target_groups instead of the
\* last.
PerformanceOfFirstTarget(d, groups, scs, b0, b) ==
  LET last == groups[1]
      info == scs[last.target]
      X_perf == [j \in 1..Len(last.parents) |-> Column(d, last.parents[j])]
      y_perf == Column(d, last.target)
      n_obs == Len(y_perf)
      y_pred == [r \in 1..n_obs |-> PredictRow(X_perf, r, info, b0, b)]
      sq == [r \in 1..n_obs |-> FMul(y_perf[r] - y_pred[r], y_perf[r] - y_pred[r])]
      ss_res == SumSeq(sq)
      ss_tot == SumSeq([r \in 1..n_obs |->
                  FMul(y_perf[r] - MeanOf(y_perf), y_perf[r] - MeanOf(y_perf))])
      r_squared == IF ss_tot > 0 THEN Unit - FDiv(ss_res, ss_tot) ELSE 0
      rmse == FSqrt(MeanOf(sq))
      n_params == Len(b) + 1
      aic == 2 * n_params * Unit - 2 * LogInvRmse(rmse)
      bic == FLn(n_obs * Unit) * n_params - 2 * LogInvRmse(rmse)
  IN  JDict([rSquared |-> JFloat(Fin(r_squared)), rmse |-> JFloat(Fin(rmse)),
             aic |-> JFloat(Fin(aic)), bic |-> JFloat(Fin(bic))])

\* Lines 405-426 and 432-437: the metrics of the last target of
\* target_groups, computed with β0_hat and β_hat.
PerformanceOf(d, groups, scs, b0, b) ==
  LET last == groups[Len(groups)]
      info == scs[last.target]
      X_perf == [j \in 1..Len(last.parents) |-> Column(d, last.parents[j])]
      y_perf == Column(d, last.target)
      n_obs == Len(y_perf)
      y_pred == [r \in 1..n_obs |-> PredictRow(X_perf, r, info, b0, b)]
      sq == [r \in 1..n_obs |-> FMul(y_perf[r] - y_pred[r], y_perf[r] - y_pred[r])]
      ss_res == SumSeq(sq)
      ss_tot == SumSeq([r \in 1..n_obs |->
                  FMul(y_perf[r] - MeanOf(y_perf), y_perf[r] - MeanOf(y_perf))])
      r_squared == IF ss_tot > 0 THEN Unit - FDiv(ss_res, ss_tot) ELSE 0
      rmse == FSqrt(MeanOf(sq))
      n_params == Len(b) + 1
      aic == 2 * n_params * Unit - 2 * LogInvRmse(rmse)
      bic == FLn(n_obs * Unit) * n_params - 2 * LogInvRmse(rmse)
  IN  JDict([rSquared |-> JFloat(Fin(r_squared)), rmse |-> JFloat(Fin(rmse)),
             aic |-> JFloat(Fin(aic)), bic |-> JFloat(Fin(bic))])

\* Lines 403-437, the try block completing.
PerformanceOk ==
  /\ pc = "performance"
  /\ ~DotFails(Len(target_groups[Len(target_groups)].parents), beta_bound, beta_hat)
  /\ performance' = PerformanceOf(df, target_groups, scalers, beta0_hat, beta_hat)
  /\ pc' = "predictions"
  /\ UNCHANGED <<payload, df, edge_i, dag_edges, edge_set, target_groups,
                 node_i, scalers, cpds, beta_bound, beta0_hat, beta_hat,
                 beta_stds, y_clean_len, eff_t, eff_p, analysis_results,
                 updated_edges, predictions, incrementality, result, stdout,
                 exit_code, sampled, posterior, handled>>

\* Lines 429-437: the bare except sets the four metrics to 0.
PerformanceFailed ==
  /\ pc = "performance"
  /\ DotFails(Len(target_groups[Len(target_groups)].parents), beta_bound, beta_hat)
  /\ performance' = ZeroPerformance
  /\ handled' = Append(handled, "performance")
  /\ pc' = "predictions"
  /\ UNCHANGED <<payload, df, edge_i, dag_edges, edge_set, target_groups,
                 node_i, scalers, cpds, beta_bound, beta0_hat, beta_hat,
                 beta_stds, y_clean_len, eff_t, eff_p, analysis_results,
                 updated_edges, predictions, incrementality, result, stdout,
                 exit_code, sampled, posterior>>

EmptyPredictions == JDict([actualVsPredicted |-> JList(<<>>)])

\* Lines 443-473: one record per row of the first target of target_groups,
\* predicted with β0_hat and β_hat.
PredictionsOf(groups, scs, b0, b) ==
  LET info == scs[groups[1].target]
      y_actual == info.y_raw
      y_predicted == [r \in 1..Len(y_actual) |-> PredictRow(info.X_raw, r, info, b0, b)]
  IN  JDict([actualVsPredicted |->
        JList([r \in 1..Len(y_actual) |->
          JDict([actual |-> JFloat(Fin(y_actual[r])),
                 predicted |-> JFloat(Fin(y_predicted[r])),
                 residual |-> JFloat(Fin(y_actual[r] - y_predicted[r])),
                 period |-> JInt(r),
                 date |-> JStr(<<"Period ", DigitStr(r)>>)])])])

\* Lines 440-442: no edge result, nothing is predicted.
PredictionsSkip ==
  /\ pc = "predictions"
  /\ Len(updated_edges) = 0
  /\ predictions' = EmptyPredictions
  /\ pc' = "incrementality"
  /\ UNCHANGED <<payload, df, edge_i, dag_edges, edge_set, target_groups,
                 node_i, scalers, cpds, beta_bound, beta0_hat, beta_hat,
                 beta_stds, y_clean_len, eff_t, eff_p, analysis_results,
                 updated_edges, performance, incrementality, result, stdout,
                 exit_code, sampled, posterior, handled>>

\* Lines 440-473, the try block completing.
PredictionsOk ==
  /\ pc = "predictions"
  /\ Len(updated_edges) > 0
  /\ ~DotFails(Len(target_groups[1].parents), beta_bound, beta_hat)
  /\ predictions' = PredictionsOf(target_groups, scalers, beta0_hat, beta_hat)
  /\ pc' = "incrementality"
  /\ UNCHANGED <<payload, df, edge_i, dag_edges, edge_set, target_groups,
                 node_i, scalers, cpds, beta_bound, beta0_hat, beta_hat,
                 beta_stds, y_clean_len, eff_t, eff_p, analysis_results,
                 updated_edges, performance, incrementality, result, stdout,
                 exit_code, sampled, posterior, handled>>

\* A prediction section without its own handler: the exception reaches the
\* outer handler of the analysis.
PredictionsFailedAborts ==
  /\ pc = "predictions"
  /\ Len(updated_edges) > 0
  /\ DotFails(Len(target_groups[1].parents), beta_bound, beta_hat)
  /\ predictions' = EmptyPredictions
  /\ handled' = handled \o <<"predictions", "analysis">>
  /\ result' = AnalysisFailure("shapes not aligned")
  /\ pc' = "clean"
  /\ UNCHANGED <<payload, df, edge_i, dag_edges, edge_set, target_groups,
                 node_i, scalers, cpds, beta_bound, beta0_hat, beta_hat,
                 beta_stds, y_clean_len, eff_t, eff_p, analysis_results,
                 updated_edges, performance, incrementality, stdout,
                 exit_code, sampled, posterior>>

\* Lines 475-478: the dot product raised before any record was appended.
PredictionsFailed ==
  /\ pc = "predictions"
  /\ Len(updated_edges) > 0
  /\ DotFails(Len(target_groups[1].parents), beta_bound, beta_hat)
  /\ predictions' = EmptyPredictions
  /\ handled' = Append(handled, "predictions")
  /\ pc' = "incrementality"
  /\ UNCHANGED <<payload, df, edge_i, dag_edges, edge_set, target_groups,
                 node_i, scalers, cpds, beta_bound, beta0_hat, beta_hat,
                 beta_stds, y_clean_len, eff_t, eff_p, analysis_results,
                 updated_edges, performance, incrementality, result, stdout,
                 exit_code, sampled, posterior>>

\* Line 481.
DefaultIncrementality ==
  JDict([revenue |->
    JDict([totalIncrementalImpact |-> JFloat(Fin(0)),
           baselineEffect |-> JFloat(Fin(0)),
           channelContributions |-> JList(<<>>)])])

\* Lines 510-516: the baseline of the first target in original units.
BaselineOriginal(info, parent_cols, b0, b) ==
  LET baseline_scaled ==
        b0 + SumSeq([j \in 1..Len(parent_cols) |->
               FMul(b[j], FDiv(0 - info.scaler_X[j].mean, info.scaler_X[j].scale))])
  IN  FMul(baseline_scaled, info.scaler_y.scale) + info.scaler_y.mean

\* Lines 534-561: the contribution entries of the edges whose emitted source
\* resolves to a column, before the percentages are known.
RawContributions(d, edges) ==
  LET Resolves(e) == FindColumnForNode(e.v.source.v, d.columns) # NoneCol
      kept == SelectSeq(edges, Resolves)
  IN  [k \in 1..Len(kept) |->
        LET source_col == FindColumnForNode(kept[k].v.source.v, d.columns)
            avg_spend_original == MeanOf(Column(d, source_col))
            coeff_original == kept[k].v.data.v.coefficient.v.v
        IN  [channel |-> kept[k].v.source.v,
             averageSpend |-> avg_spend_original,
             coefficient |-> coeff_original,
             totalContribution |-> FMul(avg_spend_original, coeff_original)]]

\* Lines 570-574: the share of the total, times 100, when the total is
\* positive, else the int 0.
Percentage(contribution, total) ==
  IF total > 0 THEN JFloat(Fin(FDiv(contribution, total) * 100)) ELSE JInt(0)

\* max(0, min(1, x))
Clamp01(x) == PyMax(Fin(0), PyMin(Fin(Unit), x))

\* Lines 577-595 without the clamp of lines 582-583.
FractionUnclamped(x, avg_actual_revenue) ==
  IF avg_actual_revenue > 0 THEN Fin(FDiv(x, avg_actual_revenue)) ELSE Fin(0)

\* Lines 577-595: x as a fraction of the mean outcome, clamped to [0, 1];
\* 0.0 when the mean outcome is not positive.
Fraction(x, avg_actual_revenue) ==
  IF avg_actual_revenue > 0 THEN Clamp01(Fin(FDiv(x, avg_actual_revenue))) ELSE Fin(0)

\* Lines 484-595: the incrementality dict, with the baseline of the first
\* target of target_groups computed with β0_hat and β_hat.
IncrementalityOf(d, groups, scs, edges, b0, b) ==
  LET info == scs[groups[1].target]
      baseline_original == BaselineOriginal(info, groups[1].parents, b0, b)
      raw == RawContributions(d, edges)
      total == SumSeq([k \in 1..Len(raw) |-> raw[k].totalContribution])
      avg_actual_revenue == MeanOf(info.y_raw)
  IN  JDict([revenue |->
        JDict([totalIncrementalImpact |-> JFloat(Fraction(total, avg_actual_revenue)),
               baselineEffect |-> JFloat(Fraction(baseline_original, avg_actual_revenue)),
               channelContributions |->
                 JList([k \in 1..Len(raw) |->
                   JDict([channel |-> JStr(raw[k].channel),
                          averageSpend |-> JFloat(Fin(raw[k].averageSpend)),
                          coefficient |-> JFloat(Fin(raw[k].coefficient)),
                          totalContribution |-> JFloat(Fin(raw[k].totalContribution)),
                          percentageContribution |->
                            Percentage(raw[k].totalContribution, total)])])])])

\* β_hat[i] raises an IndexError when β_hat is shorter than the first
\* target's parent list (and a NameError while unbound).
BaselineFails(k, bound, b) == ~bound \/ Len(b) < k

\* Lines 481-484: no edge result, the default stays.
IncrementalitySkip ==
  /\ pc = "incrementality"
  /\ Len(updated_edges) = 0
  /\ incrementality' = DefaultIncrementality
  /\ pc' = "assemble"
  /\ UNCHANGED <<payload, df, edge_i, dag_edges, edge_set, target_groups,
                 node_i, scalers, cpds, beta_bound, beta0_hat, beta_hat,
                 beta_stds, y_clean_len, eff_t, eff_p, analysis_results,
                 updated_edges, performance, predictions, result, stdout,
                 exit_code, sampled, posterior, handled>>

\* Lines 481-595, the try block completing.
IncrementalityOk ==
  /\ pc = "incrementality"
  /\ Len(updated_edges) > 0
  /\ ~BaselineFails(Len(target_groups[1].parents), beta_bound, beta_hat)
  /\ incrementality' = IncrementalityOf(df, target_groups, scalers, updated_edges,
                                        beta0_hat, beta_hat)
  /\ pc' = "assemble"
  /\ UNCHANGED <<payload, df, edge_i, dag_edges, edge_set, target_groups,
                 node_i, scalers, cpds, beta_bound, beta0_hat, beta_hat,
                 beta_stds, y_clean_len, eff_t, eff_p, analysis_results,
                 updated_edges, performance, predictions, result, stdout,
                 exit_code, sampled, posterior, handled>>

\* Lines 597-600: the baseline raised before any contribution was appended;
\* the default stays.
IncrementalityFailed ==
  /\ pc = "incrementality"
  /\ Len(updated_edges) > 0
  /\ BaselineFails(Len(target_groups[1].parents), beta_bound, beta_hat)
  /\ incrementality' = DefaultIncrementality
  /\ handled' = Append(handled, "incrementality")
  /\ pc' = "assemble"
  /\ UNCHANGED <<payload, df, edge_i, dag_edges, edge_set, target_groups,
                 node_i, scalers, cpds, beta_bound, beta0_hat, beta_hat,
                 beta_stds, y_clean_len, eff_t, eff_p, analysis_results,
                 updated_edges, performance, predictions, result, stdout,
                 exit_code, sampled, posterior>>

\* Lines 602-613: the success result.
AssembleResult ==
  /\ pc = "assemble"
  /\ result' =
       JDict([success |-> JBool(TRUE),
              method |-> JStr(MethodId),
              parameters |-> JDict([edges |-> JList(analysis_results)]),
              updatedDAG |-> JDict([nodes |-> JList(<<>>), edges |-> JList(updated_edges)]),
              performance |-> performance,
              predictions |-> predictions,
              incrementalityAnalysis |-> incrementality])
  /\ pc' = "clean"
  /\ UNCHANGED <<payload, df, edge_i, dag_edges, edge_set, target_groups,
                 node_i, scalers, cpds, beta_bound, beta0_hat, beta_hat,
                 beta_stds, y_clean_len, eff_t, eff_p, analysis_results,
                 updated_edges, performance, predictions, incrementality,
                 stdout, exit_code, sampled, posterior, handled>>

\* ---------------------------------------------------- sanitise and print
NonFinite(x) == x.k \in {"nan", "inf", "-inf"}

\* clean_json_values that does not descend into lists.
RECURSIVE CleanJsonValuesDictsOnly(_)
CleanJsonValuesDictsOnly(obj) ==
  CASE obj.t = "dict" ->
         JDict([key \in DOMAIN obj.v |-> CleanJsonValuesDictsOnly(obj.v[key])])
    [] obj.t = "float" -> IF NonFinite(obj.v) THEN JFloat(Fin(0)) ELSE obj
    [] OTHER -> obj

\* Lines 656-665: clean_json_values.
RECURSIVE CleanJsonValues(_)
CleanJsonValues(obj) ==
  CASE obj.t = "dict" ->
         JDict([key \in DOMAIN obj.v |-> CleanJsonValues(obj.v[key])])
    [] obj.t = "list" ->
         JList([k \in 1..Len(obj.v) |-> CleanJsonValues(obj.v[k])])
    [] obj.t = "float" -> IF NonFinite(obj.v) THEN JFloat(Fin(0)) ELSE obj
    [] OTHER -> obj

\* Lines 667-674: the result is cleaned and printed between the markers.
CleanAndEmit ==
  /\ pc = "clean"
  /\ stdout' = Append(stdout, CleanJsonValues(result))
  /\ pc' = "exit"
  /\ UNCHANGED <<payload, df, edge_i, dag_edges, edge_set, target_groups,
                 node_i, scalers, cpds, beta_bound, beta0_hat, beta_hat,
                 beta_stds, y_clean_len, eff_t, eff_p, analysis_results,
                 updated_edges, performance, predictions, incrementality,
                 result, exit_code, sampled, posterior, handled>>

Next ==
  \/ MainNoInput
  \/ MainScriptError
  \/ MainCallAnalysis
  \/ ParseInputData
  \/ ResolveEdge
  \/ NoValidEdges
  \/ BuildNetworkCycle
  \/ BuildNetworkAndGroup
  \/ FitNodeScalerError
  \/ FitNodeSkip
  \/ FitNodeSampleRaise
  \/ FitNodeSampled
  \/ FitLoopDone
  \/ EffectNoCpd
  \/ EffectTransform
  \/ EffectFallback
  \/ EffectFallbackNameError
  \/ EffectLoopDone
  \/ PerformanceOk
  \/ PerformanceFailed
  \/ PredictionsSkip
  \/ PredictionsOk
  \/ PredictionsFailed
  \/ IncrementalitySkip
  \/ IncrementalityOk
  \/ IncrementalityFailed
  \/ AssembleResult
  \/ CleanAndEmit

Spec == Init /\ [][Next]_vars

\* ------------------------------------------------------------ properties
\* The pair of columns input edge k resolves to, and whether both exist.
ResolvedPair(k) ==
  <<FindColumnForNode(payload.edges[k].source, df.columns),
    FindColumnForNode(payload.edges[k].target, df.columns)>>
Resolvable(k) == ResolvedPair(k)[1] # NoneCol /\ ResolvedPair(k)[2] # NoneCol

\* The input edges the resolution loop has been through.
Processed == 1..(IF edge_i - 1 < Len(payload.edges) THEN edge_i - 1 ELSE Len(payload.edges))

\* Input edge k is the first resolvable edge with its pair.
FirstOccurrence(k) ==
  /\ Resolvable(k)
  /\ \A j \in 1..(k - 1) : Resolvable(j) => ResolvedPair(j) # ResolvedPair(k)

ResolutionOver == pc \notin {"start", "parse"} /\ edge_i > Len(payload.edges)

\* dag_edges and edge_set are written by the resolution loop only.
InResolution == pc = "resolve"

\* C1: dag_edges never holds the same (source column, target column) pair
\* twice; it holds exactly the first occurrence of every pair the processed
\* input edges resolve to, in the order of those first occurrences.
C1_NoDuplicateResolvedEdges ==
  LET F == {k \in Processed : FirstOccurrence(k)}
  IN  /\ \A a, b \in 1..Len(dag_edges) : a # b => dag_edges[a] # dag_edges[b]
      /\ edge_set = {dag_edges[a] : a \in 1..Len(dag_edges)}
      /\ InResolution =>
           /\ Len(dag_edges) = Cardinality(F)
           /\ \A k \in F : dag_edges[Cardinality({j \in F : j <= k})] = ResolvedPair(k)

\* C1 witness: three edges were resolved, two different node ids of which
\* resolve to one pair, and two distinct pairs were kept.
C1_Witness ==
  /\ ResolutionOver
  /\ Len(payload.edges) = 3
  /\ Len(dag_edges) = 2
  /\ \E a, b \in 1..3 :
       /\ a < b
       /\ payload.edges[a] # payload.edges[b]
       /\ Resolvable(a)
       /\ ResolvedPair(a) = ResolvedPair(b)

NoValidEdgesMsg == <<"No valid DAG edges found after column mapping">>

IsNoValidEdgesResult(r) ==
  /\ "error" \in DOMAIN r.v
  /\ r.v.error.v = NoValidEdgesMsg

\* C2: an edge with an unresolved endpoint is dropped and every resolvable
\* edge is kept and grouped; the analysis returns the 'no valid edges'
\* failure exactly when no edge is resolvable, and then nothing was sampled
\* and no section was computed.
C2_UnresolvedEdgesDropped ==
  LET none == \A k \in 1..Len(payload.edges) : ~Resolvable(k)
  IN  /\ (InResolution /\ ResolutionOver) =>
           /\ \A k \in 1..Len(payload.edges) :
                Resolvable(k) <=> \E a \in 1..Len(dag_edges) : dag_edges[a] = ResolvedPair(k)
           /\ \A a \in 1..Len(dag_edges) :
                \E k \in 1..Len(payload.edges) : dag_edges[a] = ResolvedPair(k)
      /\ (pc = "fit" /\ node_i = 1) =>
           \A k \in 1..Len(payload.edges) :
             Resolvable(k) =>
               \E g \in 1..Len(target_groups) :
                 /\ target_groups[g].target = ResolvedPair(k)[2]
                 /\ \E q \in 1..Len(target_groups[g].parents) :
                      target_groups[g].parents[q] = ResolvedPair(k)[1]
      /\ (payload.kind = "ok" /\ pc \in {"clean", "exit"}) =>
           /\ IsNoValidEdgesResult(result) <=> none
           /\ none =>
                /\ result.v.success.v = FALSE
                /\ result.v.parameters.v.edges.v = <<>>
                /\ sampled = <<>>
                /\ cpds = <<>>
                /\ target_groups = <<>>
                /\ performance = EmptyDict
                /\ predictions = EmptyDict
                /\ incrementality = EmptyDict

\* C2 witness: one edge of the payload did not resolve, and the invocation
\* ended with a success result that carries the result of another edge.
C2_Witness ==
  /\ pc = "exit"
  /\ payload.kind = "ok"
  /\ \E k \in 1..Len(payload.edges) : ~Resolvable(k)
  /\ stdout[1].v.success.v = TRUE
  /\ Len(stdout[1].v.parameters.v.edges.v) >= 1

\* pm.sample was called for a target and returned no posterior for it.
SampleRaised == Len(sampled) > Cardinality(DOMAIN posterior)

IsSuccess(o) == "success" \in DOMAIN o.v /\ o.v.success.v = TRUE

\* The emitted edge results of payload o that belong to target column g.
HasEdgeResult(o, source_col, target_col) ==
  \E k \in 1..Len(o.v.parameters.v.edges.v) :
    /\ o.v.parameters.v.edges.v[k].v.source.v = ReplaceChar(source_col, "_", "-")
    /\ o.v.parameters.v.edges.v[k].v.target.v = ReplaceChar(target_col, "_", "-")

FailureKeys ==
  {"success", "error", "method", "parameters", "updatedDAG", "performance",
   "predictions", "incrementalityAnalysis"}

FixedFailureShape(o) ==
  /\ DOMAIN o.v = FailureKeys
  /\ o.v.success = JBool(FALSE)
  /\ o.v.error.t = "str"
  /\ o.v.method = JStr(MethodId)
  /\ o.v.parameters = JDict([edges |-> JList(<<>>)])
  /\ o.v.updatedDAG = JDict([nodes |-> JList(<<>>), edges |-> JList(<<>>)])
  /\ o.v.performance = EmptyDict
  /\ o.v.predictions = EmptyPredictions
  /\ o.v.incrementalityAnalysis = EmptyDict

\* C4 as stated: every payload printed for a failure has the fixed failure
\* shape (success = false, error, method, empty edge list, updated DAG,
\* performance, predictions and incrementality).
C4_FailureShape ==
  \A k \in 1..Len(stdout) : ~IsSuccess(stdout[k]) => FixedFailureShape(stdout[k])

\* The column an emitted source or target label stands for (the model's
\* column names hold no hyphen).
LabelColumn(label) == ReplaceChar(label, "-", "_")

ZeroVariance(col) ==
  \A r \in 1..Len(df.rows) : Column(df, col)[r] = Column(df, col)[1]

\* The position of parent column col among the parents of target column g.
ParentPos(g, col) ==
  ColIndex(target_groups[GroupIndex(target_groups, g)].parents, col)

\* C5 as stated: the edge of a zero-variance driver gets the fallback result:
\* the raw posterior coefficient mean and std, pValue 0.5, confidence 0.5,
\* strength moderate.
C5_ZeroVarianceFallback ==
  \A k \in 1..Len(analysis_results) :
    LET d == analysis_results[k].v
        src == LabelColumn(d.source.v)
        tgt == LabelColumn(d.target.v)
    IN  ZeroVariance(src) =>
          /\ d.coefficient.v = Fin(posterior[tgt].b[ParentPos(tgt, src)])
          /\ d.standardError.v = Fin(posterior[tgt].bs[ParentPos(tgt, src)])
          /\ d.pValue.v = Fin(Unit \div 2)
          /\ d.confidence.v = Fin(Unit \div 2)
          /\ d.strength.v = <<"moderate">>

\* C5 amended: a zero-variance driver is standardized with scale 1.0, so the
\* transform does not raise on it; unless something else raised in the try
\* block, its edge gets the ordinary result: coefficient = posterior
\* coefficient mean * targetScale / 1.0, confidence = clamp(1 - pValue) and
\* the strength label of that coefficient and standard error.
C5_ZeroVarianceNormalPath ==
  \A k \in 1..Len(analysis_results) :
    LET d == analysis_results[k].v
        src == LabelColumn(d.source.v)
        tgt == LabelColumn(d.target.v)
        info == scalers[tgt]
        pos == ParentPos(tgt, src)
    IN  (ZeroVariance(src) /\ Count(handled, "transform") = 0) =>
          /\ info.scaler_X[pos].scale = Unit
          /\ d.coefficient.v = Fin(FMul(posterior[tgt].b[pos], info.scaler_y.scale))
          /\ d.confidence.v = Confidence(d.pValue.v)
          /\ d.strength.v = <<Strength(d.coefficient.v.v, d.standardError.v.v)>>

\* C5 witness: the invocation succeeded without any handled exception and
\* emitted, for a zero-variance driver, a result that is not the fallback's.
C5_Witness ==
  /\ pc = "exit"
  /\ handled = <<>>
  /\ IsSuccess(stdout[1])
  /\ \E k \in 1..Len(analysis_results) :
       /\ ZeroVariance(LabelColumn(analysis_results[k].v.source.v))
       /\ analysis_results[k].v.strength.v # <<"moderate">>
       /\ analysis_results[k].v.pValue.v # Fin(Unit \div 2)

\* No float anywhere in obj is NaN or infinite.
RECURSIVE AllFinite(_)
AllFinite(obj) ==
  CASE obj.t = "dict" -> \A key \in DOMAIN obj.v : AllFinite(obj.v[key])
    [] obj.t = "list" -> \A k \in 1..Len(obj.v) : AllFinite(obj.v[k])
    [] obj.t = "float" -> ~NonFinite(obj.v)
    [] OTHER -> TRUE

\* b is a with every non-finite float replaced by 0.0 and nothing else
\* changed.
RECURSIVE SanitisedFrom(_, _)
SanitisedFrom(a, b) ==
  /\ a.t = b.t
  /\ CASE a.t = "dict" ->
            /\ DOMAIN a.v = DOMAIN b.v
            /\ \A key \in DOMAIN a.v : SanitisedFrom(a.v[key], b.v[key])
       [] a.t = "list" ->
            /\ Len(a.v) = Len(b.v)
            /\ \A k \in 1..Len(a.v) : SanitisedFrom(a.v[k], b.v[k])
       [] a.t = "float" -> IF NonFinite(a.v) THEN b.v = Fin(0) ELSE b.v = a.v
       [] OTHER -> a.v = b.v

\* C6: no printed payload holds a non-finite number at any depth, and the
\* printed result is the analysis result with exactly its non-finite floats
\* replaced by 0.
C6_NoNonFiniteEmitted ==
  /\ \A k \in 1..Len(stdout) : AllFinite(stdout[k])
  /\ (pc = "exit" /\ payload.kind = "ok") =>
       /\ Len(stdout) = 1
       /\ SanitisedFrom(result, stdout[1])

\* C6 witness: the analysis result held a NaN (the p-value of an edge, inside
\* a list) and has been printed.
C6_Witness ==
  /\ pc = "exit"
  /\ IsSuccess(result)
  /\ \E k \in 1..Len(result.v.parameters.v.edges.v) :
       result.v.parameters.v.edges.v[k].v.pValue.v = NaN

\* The analysis ran to the success result, which is built or printed.
Succeeded == pc \in {"clean", "exit"} /\ payload.kind = "ok" /\ IsSuccess(result)

SectionFailed(section) == Count(handled, section) > 0

\* C7: when a derived section (performance, predictions, incrementality)
\* fails, that section is its zero/empty default, the result is still a
\* success carrying every edge result, and each section that did not fail
\* holds its computed value.
C7_SectionFailuresIsolated ==
  (pc \in {"clean", "exit"} /\ payload.kind = "ok"
     /\ \E section \in {"performance", "predictions", "incrementality"} :
          SectionFailed(section)) =>
    /\ IsSuccess(result)
    /\ result.v.parameters.v.edges.v = analysis_results
    /\ result.v.updatedDAG.v.edges.v = updated_edges
    /\ result.v.performance =
         IF SectionFailed("performance") THEN ZeroPerformance
         ELSE PerformanceOf(df, target_groups, scalers, beta0_hat, beta_hat)
    /\ result.v.predictions =
         IF SectionFailed("predictions") \/ Len(updated_edges) = 0 THEN EmptyPredictions
         ELSE PredictionsOf(target_groups, scalers, beta0_hat, beta_hat)
    /\ result.v.incrementalityAnalysis =
         IF SectionFailed("incrementality") \/ Len(updated_edges) = 0
         THEN DefaultIncrementality
         ELSE IncrementalityOf(df, target_groups, scalers, updated_edges,
                               beta0_hat, beta_hat)
    /\ pc = "exit" =>
         /\ IsSuccess(stdout[1])
         /\ Len(stdout[1].v.parameters.v.edges.v) = Len(analysis_results)

\* C7 witness: the prediction section failed alone; the printed success
\* result has edge results, computed performance and channel contributions.
C7_Witness ==
  /\ pc = "exit"
  /\ SectionFailed("predictions")
  /\ ~SectionFailed("incrementality")
  /\ ~SectionFailed("performance")
  /\ IsSuccess(stdout[1])
  /\ stdout[1].v.predictions = EmptyPredictions
  /\ stdout[1].v.parameters.v.edges.v # <<>>
  /\ stdout[1].v.performance # ZeroPerformance
  /\ stdout[1].v.incrementalityAnalysis.v.revenue.v.channelContributions.v # <<>>

ChannelContributions(o) == o.v.incrementalityAnalysis.v.revenue.v.channelContributions.v

\* C8 as stated: every emitted channel contribution has a
\* percentageContribution within [0, 100].
C8_PercentageInRange ==
  \A n \in 1..Len(stdout) :
    IsSuccess(stdout[n]) =>
      \A k \in 1..Len(ChannelContributions(stdout[n])) :
        LET pct == ChannelContributions(stdout[n])[k].v.percentageContribution
        IN  IF pct.t = "int" THEN pct.v \in 0..100
            ELSE pct.v.k = "fin" /\ 0 <= pct.v.v /\ pct.v.v <= 100 * Unit

InUnitInterval(x) == x.k = "fin" /\ 0 <= x.v /\ x.v <= Unit

FractionsInRange(o) ==
  /\ \A k \in 1..Len(o.v.parameters.v.edges.v) :
       InUnitInterval(o.v.parameters.v.edges.v[k].v.confidence.v)
  /\ \A k \in 1..Len(o.v.updatedDAG.v.edges.v) :
       InUnitInterval(o.v.updatedDAG.v.edges.v[k].v.data.v.confidence.v)
  /\ InUnitInterval(o.v.incrementalityAnalysis.v.revenue.v.baselineEffect.v)
  /\ InUnitInterval(o.v.incrementalityAnalysis.v.revenue.v.totalIncrementalImpact.v)

\* C9: in every success result, built or printed, each edge's confidence,
\* baselineEffect and totalIncrementalImpact lie in [0, 1]; when the observed
\* outcome of the first target sums to 0 (mean 0) both incrementality
\* fractions are 0.
C9_FractionsInUnitInterval ==
  /\ \A n \in 1..Len(stdout) : IsSuccess(stdout[n]) => FractionsInRange(stdout[n])
  /\ Succeeded =>
       /\ FractionsInRange(result)
       /\ (target_groups # <<>> /\ target_groups[1].target \in DOMAIN scalers
             /\ SumSeq(scalers[target_groups[1].target].y_raw) = 0) =>
            /\ result.v.incrementalityAnalysis.v.revenue.v.baselineEffect.v = Fin(0)
            /\ result.v.incrementalityAnalysis.v.revenue.v.totalIncrementalImpact.v = Fin(0)

\* C9 witness: a printed success result with edge results whose outcome has
\* mean 0 and whose baseline in original units is not 0.
C9_Witness ==
  /\ pc = "exit"
  /\ IsSuccess(stdout[1])
  /\ stdout[1].v.parameters.v.edges.v # <<>>
  /\ ~SectionFailed("incrementality")
  /\ SumSeq(scalers[target_groups[1].target].y_raw) = 0
  /\ BaselineOriginal(scalers[target_groups[1].target], target_groups[1].parents,
                      beta0_hat, beta_hat) # 0

\* C9 second witness: a fraction was clamped: the baseline exceeds a positive
\* mean outcome and baselineEffect is 1.
C9_WitnessClamped ==
  /\ pc = "exit"
  /\ IsSuccess(stdout[1])
  /\ ~SectionFailed("incrementality")
  /\ stdout[1].v.parameters.v.edges.v # <<>>
  /\ MeanOf(scalers[target_groups[1].target].y_raw) > 0
  /\ BaselineOriginal(scalers[target_groups[1].target], target_groups[1].parents,
                      beta0_hat, beta_hat)
       > MeanOf(scalers[target_groups[1].target].y_raw)
  /\ stdout[1].v.incrementalityAnalysis.v.revenue.v.baselineEffect.v = Fin(Unit)

\* C10: posterior sampling is only ever called with at least 3 samples; a
\* target with fewer than 3 samples has no posterior and no CPD, and none of
\* its edges is among the edge results, built or printed.
C10_TooFewSamplesNeverFitted ==
  /\ sampled # <<>> => Len(df.rows) >= 3
  /\ Len(df.rows) < 3 =>
       /\ sampled = <<>>
       /\ DOMAIN posterior = {}
       /\ cpds = <<>>
       /\ analysis_results = <<>>
       /\ updated_edges = <<>>
       /\ \A n \in 1..Len(stdout) :
            IsSuccess(stdout[n]) =>
              /\ stdout[n].v.parameters.v.edges.v = <<>>
              /\ stdout[n].v.updatedDAG.v.edges.v = <<>>

\* C10 witness: a table of 1 or 2 rows with resolved edges ran to a printed
\* success result that holds no edge result.
C10_Witness ==
  /\ pc = "exit"
  /\ Len(df.rows) \in 1..2
  /\ target_groups # <<>>
  /\ DOMAIN scalers # {}
  /\ IsSuccess(stdout[1])
  /\ stdout[1].v.parameters.v.edges.v = <<>>

\* C11: when no row is left after the rows with a missing value are dropped,
\* the analysis ends in a failure result (success = false) with an empty edge
\* list, whether or not the DAG edges resolve; that result is what is printed.
C11_ZeroRowsIsFailure ==
  (pc \in {"clean", "exit"} /\ payload.kind = "ok" /\ Len(df.rows) = 0) =>
    /\ ~IsSuccess(result)
    /\ FixedFailureShape(result)
    /\ analysis_results = <<>>
    /\ sampled = <<>>
    /\ pc = "exit" =>
         /\ stdout = <<result>>
         /\ exit_code = 0

\* C11 witness: the only data row had an unreadable cell and was dropped, the
\* DAG edge resolved, and the failure of the outer handler was printed.
C11_Witness ==
  /\ pc = "exit"
  /\ payload.kind = "ok"
  /\ Len(payload.rows) >= 1
  /\ Len(df.rows) = 0
  /\ dag_edges # <<>>
  /\ stdout[1].v.success.v = FALSE
  /\ stdout[1].v.error.v[1] = "PyMC analysis failed: "
  /\ stdout[1].v.parameters.v.edges.v = <<>>

StrengthLabels == {<<"weak">>, <<"moderate">>, <<"strong">>}

\* C12: every edge result carries one of the labels weak, moderate, strong;
\* while no transform has raised, the label of each result is fixed by its
\* emitted |coefficient| and standardError: strong iff |effect| > 0.5 and
\* stdError < |effect| / 2, else moderate iff |effect| > 0.2 and
\* stdError < |effect|, else weak.
C12_StrengthLabel ==
  \A k \in 1..Len(analysis_results) :
    LET d == analysis_results[k].v
        effect == Abs(d.coefficient.v.v)
        se == d.standardError.v.v
        strong == 2 * effect > Unit /\ 2 * se < effect
        moderate == ~strong /\ 5 * effect > Unit /\ se < effect
    IN  /\ d.strength.v \in StrengthLabels
        /\ Count(handled, "transform") = 0 =>
             /\ d.strength.v = <<"strong">> <=> strong
             /\ d.strength.v = <<"moderate">> <=> moderate
             /\ d.strength.v = <<"weak">> <=> (~strong /\ ~moderate)

\* C12 witness: a printed success result, no transform having raised, with a
\* strong edge and an edge whose effect is above 0.5 but whose standard error
\* keeps it from being strong.
C12_Witness ==
  /\ pc = "exit"
  /\ Count(handled, "transform") = 0
  /\ IsSuccess(stdout[1])
  /\ \E a, b \in 1..Len(analysis_results) :
       /\ analysis_results[a].v.strength.v = <<"strong">>
       /\ analysis_results[b].v.strength.v # <<"strong">>
       /\ 2 * Abs(analysis_results[b].v.coefficient.v.v) > Unit

\* The baselineEffect of the first target of target_groups computed from that
\* target's own posterior (intercept and coefficient means) and scalers.
OwnBaselineEffect ==
  LET first == target_groups[1]
      info == scalers[first.target]
      own == posterior[first.target]
  IN  Fraction(BaselineOriginal(info, first.parents, own.b0, own.b),
               MeanOf(info.y_raw))

\* C13 as stated: whenever the incrementality section has computed a
\* baseline, it is the baseline of the first target of the grouping
\* evaluated with that same target's posterior estimate and scalers.
C13_BaselineFromOwnPosterior ==
  (Succeeded /\ Len(updated_edges) > 0 /\ ~SectionFailed("incrementality")) =>
    result.v.incrementalityAnalysis.v.revenue.v.baselineEffect.v = OwnBaselineEffect

\* C14 as stated: the standardError of every transformed edge result is the
\* posterior std of its own coefficient (its own target's std vector at the
\* parent's position) times targetScale / parentScale of that target.
C14_StdErrorFromOwnNode ==
  Count(handled, "transform") = 0 =>
    \A k \in 1..Len(analysis_results) :
      LET d == analysis_results[k].v
          src == LabelColumn(d.source.v)
          tgt == LabelColumn(d.target.v)
          info == scalers[tgt]
          pos == ParentPos(tgt, src)
      IN  d.standardError.v =
            Fin(FMul(posterior[tgt].bs[pos],
                     FDiv(info.scaler_y.scale, info.scaler_X[pos].scale)))

\* The (source column, target column) pairs of the fitted targets, target by
\* target in the order of target_groups, parent by parent, from group g on.
RECURSIVE FittedEdgesFrom(_)
FittedEdgesFrom(g) ==
  IF g > Len(target_groups) THEN <<>>
  ELSE LET grp == target_groups[g]
           own == IF grp.target \in DOMAIN posterior
                  THEN [q \in 1..Len(grp.parents) |-> <<grp.parents[q], grp.target>>]
                  ELSE <<>>
       IN  own \o FittedEdgesFrom(g + 1)

\* The coefficient the transform gives edge (src, tgt): the posterior mean
\* stored for tgt at the position of src, times targetScale / parentScale.
OwnCoefficient(src, tgt) ==
  LET info == scalers[tgt]
      pos == ParentPos(tgt, src)
  IN  Fin(FMul(posterior[tgt].b[pos],
               FDiv(info.scaler_y.scale, info.scaler_X[pos].scale)))

\* C15: in a success result there is exactly one edge result per resolved
\* edge of a fitted target, in grouping order; every fitted target has one
\* posterior coefficient per parent; each result's coefficient is the
\* target's own posterior coefficient at the source's position times
\* targetScale / parentScale, except for at most as many results as
\* transforms raised (those carry the handler's raw coefficient).
C15_OneResultPerFittedEdge ==
  Succeeded =>
    LET expected == FittedEdgesFrom(1)
        Raw(k) == Fin(AtOrZero(beta_hat,
                        ParentPos(expected[k][2], expected[k][1]) - 1))
        Off == {k \in 1..Len(expected) :
                  analysis_results[k].v.coefficient.v
                    # OwnCoefficient(expected[k][1], expected[k][2])}
    IN  /\ Len(analysis_results) = Len(expected)
        /\ Len(updated_edges) = Len(expected)
        /\ \A g \in 1..Len(target_groups) :
             target_groups[g].target \in DOMAIN posterior =>
               Len(posterior[target_groups[g].target].b) = Len(target_groups[g].parents)
        /\ \A k \in 1..Len(expected) :
             /\ analysis_results[k].v.source.v = ReplaceChar(expected[k][1], "_", "-")
             /\ analysis_results[k].v.target.v = ReplaceChar(expected[k][2], "_", "-")
             /\ updated_edges[k].v.data = analysis_results[k]
             /\ k \in Off => analysis_results[k].v.coefficient.v = Raw(k)
        /\ Cardinality(Off) <= Count(handled, "transform")
        /\ pc = "exit" =>
             Len(stdout[1].v.parameters.v.edges.v) = Len(expected)

\* C15 witness: two edges into one fitted target and a second fitted target:
\* three results were printed, none from the handler.
C15_Witness ==
  /\ pc = "exit"
  /\ IsSuccess(stdout[1])
  /\ Count(handled, "transform") = 0
  /\ Len(target_groups) = 2
  /\ \E g \in 1..2 : Len(target_groups[g].parents) = 2
  /\ Cardinality(DOMAIN posterior) = 2
  /\ Len(stdout[1].v.parameters.v.edges.v) = 3

\* C16 as stated: when the incrementality section has run, there is exactly
\* one channel contribution per edge result, in order; the emitted source
\* identifier of each resolves back to the edge's own source column, and the
\* contribution's averageSpend is the mean of that column and its
\* totalContribution that mean times the edge's coefficient.
C16_SourceIdRoundTrip ==
  (Succeeded /\ Len(updated_edges) > 0 /\ ~SectionFailed("incrementality")) =>
    LET expected == FittedEdgesFrom(1)
        contribs == ChannelContributions(result)
    IN  /\ Len(contribs) = Len(updated_edges)
        /\ \A k \in 1..Len(updated_edges) :
             LET own == expected[k][1]
                 mean == MeanOf(Column(df, own))
             IN  /\ contribs[k].v.channel = updated_edges[k].v.source
                 /\ FindColumnForNode(updated_edges[k].v.source.v, df.columns) = own
                 /\ contribs[k].v.averageSpend.v = Fin(mean)
                 /\ contribs[k].v.totalContribution.v =
                      Fin(FMul(mean, analysis_results[k].v.coefficient.v.v))

PerformanceDone ==
  pc \in {"predictions", "incrementality", "assemble", "clean", "exit"}
    /\ payload.kind = "ok" /\ performance # EmptyDict

\* The squared residuals of the last target of target_groups under its own
\* posterior estimate and scalers.
LastTargetSquaredResiduals ==
  LET last == target_groups[Len(target_groups)]
      own == posterior[last.target]
      info == scalers[last.target]
      X == [j \in 1..Len(last.parents) |-> Column(df, last.parents[j])]
      y == Column(df, last.target)
  IN  [r \in 1..Len(y) |->
         LET e == y[r] - PredictRow(X, r, info, own.b0, own.b)
         IN  FMul(e, e)]

\* C17: once the performance section has run, either it failed and all four
\* metrics are 0, or the metrics are those of the last target of the
\* grouping under that target's own posterior estimate and scalers: rmse is
\* the root mean squared residual of that target, rSquared is
\* 1 - SSres / SStot, and 0 when SStot is 0, and the parameter count in aic
\* is that target's parent count plus one.
C17_PerformanceOfLastTarget ==
  PerformanceDone =>
    IF SectionFailed("performance")
    THEN /\ performance.v.rSquared.v = Fin(0)
         /\ performance.v.rmse.v = Fin(0)
         /\ performance.v.aic.v = Fin(0)
         /\ performance.v.bic.v = Fin(0)
    ELSE LET last == target_groups[Len(target_groups)]
             y == Column(df, last.target)
             sq == LastTargetSquaredResiduals
             ss_tot == SumSeq([r \in 1..Len(y) |->
                         FMul(y[r] - MeanOf(y), y[r] - MeanOf(y))])
             rmse == FSqrt(MeanOf(sq))
         IN  /\ last.target \in DOMAIN posterior
             /\ sampled[Len(sampled)] = last.target
             /\ performance.v.rmse.v = Fin(rmse)
             /\ performance.v.rSquared.v =
                  IF ss_tot > 0 THEN Fin(Unit - FDiv(SumSeq(sq), ss_tot)) ELSE Fin(0)
             /\ ZeroVariance(last.target) => performance.v.rSquared.v = Fin(0)
             /\ performance.v.aic.v =
                  Fin(2 * (Len(last.parents) + 1) * Unit - 2 * LogInvRmse(rmse))

\* C17 witness: two targets were fitted with different posterior estimates
\* and the printed metrics are not 0.
C17_Witness ==
  /\ pc = "exit"
  /\ IsSuccess(stdout[1])
  /\ ~SectionFailed("performance")
  /\ Len(target_groups) = 2
  /\ posterior[target_groups[1].target].b0 # posterior[target_groups[2].target].b0
  /\ stdout[1].v.performance.v.rmse.v # Fin(0)

\* C17 second witness: the outcome of the last target is constant (SStot is
\* 0), the section did not fail and rSquared is 0 next to a positive rmse.
C17_WitnessZeroSStot ==
  /\ pc = "exit"
  /\ IsSuccess(stdout[1])
  /\ ~SectionFailed("performance")
  /\ ZeroVariance(target_groups[Len(target_groups)].target)
  /\ stdout[1].v.performance.v.rSquared.v = Fin(0)
  /\ stdout[1].v.performance.v.rmse.v # Fin(0)

\* The position of main: the number of the stage pc stands for, counted from
\* the exit.
Stage(p) ==
  CASE p = "start" -> 10
    [] p = "parse" -> 9
    [] p = "resolve" -> 8
    [] p = "fit" -> 7
    [] p = "effects" -> 6
    [] p = "performance" -> 5
    [] p = "predictions" -> 4
    [] p = "incrementality" -> 3
    [] p = "assemble" -> 2
    [] p = "clean" -> 1
    [] OTHER -> 0

\* The iterations the loop of the current stage has left, its exit test
\* included.
RECURSIVE PairsFrom(_)
PairsFrom(g) ==
  IF g > Len(target_groups) THEN 0
  ELSE Len(target_groups[g].parents) + PairsFrom(g + 1)

LoopLeft ==
  CASE pc = "resolve" -> Len(payload.edges) + 1 - edge_i
    [] pc = "fit" -> Len(target_groups) + 1 - node_i
    [] pc = "effects" -> PairsFrom(eff_t) - (eff_p - 1)
    [] OTHER -> 0

\* A measure of the work main has left: no loop runs more than MaxEdges + 1
\* iterations.
Rank == Stage(pc) * (MaxEdges + 2) + LoopLeft

\* C18: every step of an invocation takes it strictly closer to its exit
\* (the measure Rank is never negative, decreases with every step and is 0
\* exactly at the exit: no stage is entered twice, nothing is retried), the
\* exit is reached with exactly one payload printed, nothing is printed
\* before it, and no target is handed to pm.sample twice.
C18_ExactlyOnePayload ==
  /\ [][Rank' < Rank]_vars
  /\ [](Rank >= 0 /\ (Rank = 0 <=> pc = "exit"))
  /\ [](pc = "exit" => Len(stdout) = 1)
  /\ [](pc # "exit" => stdout = <<>>)
  /\ [](\A a, b \in 1..Len(sampled) : a # b => sampled[a] # sampled[b])

\* C18 witness: two targets were sampled, once each, and the one payload of
\* the invocation has been printed.
C18_Witness ==
  /\ pc = "exit"
  /\ Len(stdout) = 1
  /\ Len(sampled) = 2
  /\ sampled[1] # sampled[2]

====
